---- MODULE Spec2Model ----
(***************************************************************************)
(* Model of the trading-bot mobile client.                                 *)
(*                                                                         *)
(*   - the typed API client (src/src/api.ts): every request function, the  *)
(*     shared error normalisation parseError, loginUser's local guard;     *)
(*   - the journey view controller (src/unnamed/part_000): the five-stage  *)
(*     wizard, run(), the connect / save-configuration / refresh / bot     *)
(*     handlers;                                                           *)
(*   - the starter view controller (src/App.tsx): onCheckHealth and        *)
(*     onLoadUserData.                                                     *)
(*                                                                         *)
(* JavaScript runs a handler to completion up to its next await on a       *)
(* network call; the continuation after an await runs in the same task as  *)
(* the arrival of the response.  One action of the model is therefore one  *)
(* such run-to-completion segment: a press of a button up to the first     *)
(* pending fetch, or the arrival of one response together with everything  *)
(* the handler does before its next pending fetch.                         *)
(***************************************************************************)
EXTENDS Integers, Sequences, FiniteSets, Bags, TLC

VARIABLES
    variant,         \* which App component is mounted: "journey" | "starter" | "client"
    step,            \* part_000:41  JourneyStep
    loading,         \* part_000:44 / App.tsx:28
    error,           \* part_000:45 / App.tsx:29   (Null when null)
    successMessage,  \* part_000:46
    userId,          \* part_000:50 / App.tsx:27
    onboardingPage,  \* part_000:52
    health,          \* part_000:69 / App.tsx:30
    license,         \* part_000:70 / App.tsx:31   (tag of the payload shown, 0 = null)
    summary,         \* part_000:71 / App.tsx:32
    botStatus,       \* part_000:72
    closedTrades,    \* part_000:73
    notifications,   \* part_000:74 / App.tsx:33
    acts,            \* the asynchronous handlers in progress: a bag of records
    solo,            \* history: no two handlers were in progress together since
                     \* the handlers now in progress began
    serverRunning,   \* the backend's bot run state
    ev,              \* history: what the last step did
    completed,       \* history: the writes that have completed successfully
    api              \* the API client invoked directly: the last invocation

vars == <<variant, step, loading, error, successMessage, userId, onboardingPage,
          health, license, summary, botStatus, closedTrades, notifications,
          acts, solo, serverRunning, ev, api, completed>>

uiVars == <<step, loading, error, successMessage, userId, onboardingPage,
            health, license, summary, botStatus, closedTrades, notifications>>

----------------------------------------------------------------------------
(* Bounds *)

\* longest text typed into a form field or passed as an argument
MaxLen == 2
\* handlers that may be in progress at once
MaxPending == 2
\* HTTP requests that may be in flight at once
MaxInFlight == 7

----------------------------------------------------------------------------
(* Text: a string is a sequence of characters *)

Null == "null"

Chars == {" ", "a", "B", "@"}

RECURSIVE StrsOfLen(_)
StrsOfLen(n) ==
    IF n = 0 THEN {<<>>}
    ELSE {Append(s, c) : s \in StrsOfLen(n - 1), c \in Chars}

Strs == UNION {StrsOfLen(n) : n \in 0..MaxLen}

IsSpace(c) == c = " "

RECURSIVE TrimStart(_)
TrimStart(s) ==
    IF s # <<>> /\ IsSpace(Head(s)) THEN TrimStart(Tail(s)) ELSE s

RECURSIVE TrimEnd(_)
TrimEnd(s) ==
    IF s # <<>> /\ IsSpace(s[Len(s)]) THEN TrimEnd(SubSeq(s, 1, Len(s) - 1)) ELSE s

\* String.prototype.trim
Trim(s) == TrimEnd(TrimStart(s))

\* String.prototype.toLowerCase on one character
ToLowerChar(c) == IF c = "B" THEN "b" ELSE c

\* the character class [a-z0-9]
IsLowerAlnum(c) == c \in {"a", "b"}

\* email.trim().toLowerCase().replace(/[^a-z0-9]/g, "-") || "user"
UserIdOf(email) ==
    LET t == Trim(email)
        r == [i \in 1..Len(t) |->
                 IF IsLowerAlnum(ToLowerChar(t[i])) THEN ToLowerChar(t[i]) ELSE "-"]
    IN IF r = <<>> THEN <<"u", "s", "e", "r">> ELSE r

----------------------------------------------------------------------------
(* HTTP responses *)

\* the status codes the backend answers with
Statuses == {200, 204, 404, 500}

\* Response.ok of the fetch API: the status is in the success range
ResponseOk(status) == status >= 200 /\ status <= 299

\* the detail field of a JSON error body
Absent == [t |-> "undefined", v |-> ""]
Details == {Absent,
            [t |-> "string", v |-> ""],
            [t |-> "string", v |-> "bad creds"],
            [t |-> "number", v |-> "7"]}

\* JavaScript truthiness of payload?.detail
Truthy(d) == d.t # "undefined" /\ d.v # "" /\ ~(d.t = "number" /\ d.v = "0")

\* String(payload.detail)
StringOf(d) == d.v

NoData == [tag |-> 0]

\* bodies of a response outside the success range: empty, not JSON, JSON null,
\* JSON object with or without a detail field
ErrorBodies ==
    {[kind |-> "empty", detail |-> Absent, data |-> NoData],
     [kind |-> "text",  detail |-> Absent, data |-> NoData]}
    \cup {[kind |-> "json", detail |-> d, data |-> NoData] : d \in Details}

ReadOps == {"getHealth", "getLicenseStatus", "getDashboardSummary", "getNotifications",
            "getBotStatus", "getDailyPnl", "getOpenTrades", "getClosedTrades",
            "getLatencyMetrics"}
VoidOps == {"saveMT5Account", "saveTradingConfig", "saveRiskConfig",
            "saveSessionConfig", "activateLicense"}
NetOps == ReadOps \cup VoidOps \cup {"connectMT5", "startBot", "stopBot"}

\* the decoded JSON bodies of the declared shape of each operation; tags
\* identify the snapshot a read returned (a bot status is told by its run
\* state, its tag only says that it is not null)
Payloads(op, tags, running) ==
    CASE op = "getHealth" -> {[ok |-> b] : b \in BOOLEAN}
      [] op = "connectMT5" ->
            {[status |-> st, message |-> "bad creds"] :
                st \in {"validated", "failed", "provider_unavailable"}}
      [] op \in {"getBotStatus", "startBot", "stopBot"} ->
            {[running |-> running, tag |-> 1]}
      [] OTHER -> {[tag |-> t] : t \in tags}

SuccessBodies(op, tags, running) ==
    {[kind |-> "text", detail |-> Absent, data |-> NoData],
     [kind |-> "empty", detail |-> Absent, data |-> NoData]}
    \cup {[kind |-> "json", detail |-> Absent, data |-> x] :
             x \in Payloads(op, tags, running)}

\* every response the backend may give to a request of op, with a status of
\* statuses and, outside the success range, a body of errBodies
Responses(op, tags, running, statuses, errBodies) ==
    {[status |-> st, body |-> b] :
        st \in {x \in statuses : ResponseOk(x)}, b \in SuccessBodies(op, tags, running)}
    \cup {[status |-> st, body |-> b] :
        st \in {x \in statuses : ~ResponseOk(x)}, b \in errBodies}

----------------------------------------------------------------------------
(* The API client, src/src/api.ts *)

Raise(msg) == [kind |-> "raise", message |-> msg, value |-> NoData]
Return(v)  == [kind |-> "return", message |-> "", value |-> v]
Void == [tag |-> -1]

\* the characters of a base URL that endpoint tells apart
UrlChars == {"h", ":", "/"}

\* the base URLs a request function is called with
BaseUrls == UNION {[1..n -> UrlChars] : n \in 0..MaxLen}

\* the path a request function hands to endpoint: a slash and the rest of the
\* path as one token (the first version asks /dashboard/summary)
PathOf(op, early) ==
    <<"/",
      CASE op = "getHealth"           -> "health"
        [] op = "getLicenseStatus"    -> "license/status?user_id="
        [] op = "getDashboardSummary" ->
              IF early THEN "dashboard/summary?user_id=" ELSE "summary?user_id="
        [] op = "getNotifications"    -> "notifications?user_id=&channel=in_app&limit=20"
        [] op = "getBotStatus"        -> "bot/status?user_id="
        [] op = "getDailyPnl"         -> "pnl/daily?user_id="
        [] op = "getOpenTrades"       -> "trades/open?user_id="
        [] op = "getClosedTrades"     -> "trades/closed?user_id=&limit="
        [] op = "getLatencyMetrics"   -> "metrics/latency"
        [] op = "connectMT5"          -> "mt5/connect-test"
        [] op = "saveMT5Account"      -> "mt5/account"
        [] op = "saveTradingConfig"   -> "trading/config"
        [] op = "saveRiskConfig"      -> "risk/config"
        [] op = "saveSessionConfig"   -> "session/config"
        [] op = "activateLicense"     -> "license/activate"
        [] op = "startBot"            -> "bot/start?user_id="
        [] op = "stopBot"             -> "bot/stop?user_id=">>

\* baseUrl.replace(/\/+$/, ""): every trailing slash removed
RECURSIVE StripSlashes(_)
StripSlashes(s) ==
    IF s # <<>> /\ s[Len(s)] = "/" THEN StripSlashes(SubSeq(s, 1, Len(s) - 1)) ELSE s

\* an endpoint that removes every trailing slash of the base URL
endpointStripAll(baseUrl, path) == StripSlashes(baseUrl) \o path

\* baseUrl.replace(/\/$/, ""): the regular expression matches one slash at the
\* end of the text and replace() without the g flag replaces one match
StripSlash(s) ==
    IF s # <<>> /\ s[Len(s)] = "/" THEN SubSeq(s, 1, Len(s) - 1) ELSE s

\* endpoint: `${baseUrl.replace(/\/$/, "")}${path}`
endpoint(baseUrl, path) == StripSlash(baseUrl) \o path

\* the text before " failed with status" in each operation's fallback
Label(op) ==
    CASE op = "getHealth"           -> "Health request"
      [] op = "getLicenseStatus"    -> "License status request"
      [] op = "getDashboardSummary" -> "Dashboard summary request"
      [] op = "getNotifications"    -> "Notifications request"
      [] op = "getBotStatus"        -> "Bot status request"
      [] op = "getDailyPnl"         -> "Daily PnL request"
      [] op = "getOpenTrades"       -> "Open trades request"
      [] op = "getClosedTrades"     -> "Closed trades request"
      [] op = "getLatencyMetrics"   -> "Latency metrics request"
      [] op = "connectMT5"          -> "MT5 connect test"
      [] op = "saveMT5Account"      -> "Saving MT5 account"
      [] op = "saveTradingConfig"   -> "Saving trading settings"
      [] op = "saveRiskConfig"      -> "Saving risk settings"
      [] op = "saveSessionConfig"   -> "Saving session settings"
      [] op = "activateLicense"     -> "License activation"
      [] op = "startBot"            -> "Start bot"
      [] op = "stopBot"             -> "Stop bot"

\* `${label} failed with status ${response.status}`
Fallback(op, status) == Label(op) \o " failed with status " \o ToString(status)

\* the message of the SyntaxError response.json() rejects with
JsonSyntaxError == "JSON Parse error"

\* the try block of parseError: what it throws, if anything
TryParse(resp) ==
    IF resp.body.kind # "json"
    THEN [thrown |-> TRUE, message |-> JsonSyntaxError]
    ELSE IF Truthy(resp.body.detail)
         THEN [thrown |-> TRUE, message |-> StringOf(resp.body.detail)]
         ELSE [thrown |-> FALSE, message |-> ""]

\* a parseError whose catch lets what the try block threw go through
parseErrorNoCatch(resp, fallback) ==
    IF TryParse(resp).thrown
    THEN [thrown |-> TRUE, message |-> TryParse(resp).message]
    ELSE [thrown |-> TRUE, message |-> fallback]

\* parseError: the catch clause catches everything the try block throws, the
\* Error made from the detail included, and throws the fallback instead
parseError(resp, fallback) ==
    IF TryParse(resp).thrown
    THEN [thrown |-> TRUE, message |-> fallback]
    ELSE [thrown |-> TRUE, message |-> fallback]

\* a client in which every POST function is written like the write-only ones
\* and never reads the body of a success
SettleWritesOnly(op, resp) ==
    LET e == parseError(resp, Fallback(op, resp.status))
    IN IF ~ResponseOk(resp.status) /\ e.thrown
       THEN Raise(e.message)
       ELSE IF op \notin ReadOps
            THEN Return(Void)
            ELSE IF resp.body.kind = "json"
                 THEN Return(resp.body.data)
                 ELSE Raise(JsonSyntaxError)

\* a client that swallows the rejection of response.json() and returns
\* nothing decoded
SettleLenient(op, resp) ==
    LET e == parseError(resp, Fallback(op, resp.status))
    IN IF ~ResponseOk(resp.status) /\ e.thrown
       THEN Raise(e.message)
       ELSE IF op \in VoidOps
            THEN Return(Void)
            ELSE IF resp.body.kind = "json"
                 THEN Return(resp.body.data)
                 ELSE Return(NoData)

\* the part of a request function after its fetch has resolved
Settle(op, resp) ==
    LET e == parseError(resp, Fallback(op, resp.status))
    IN IF ~ResponseOk(resp.status) /\ e.thrown
       THEN Raise(e.message)
       ELSE IF op \in VoidOps
            THEN Return(Void)
            ELSE IF resp.body.kind = "json"
                 THEN Return(resp.body.data)
                 ELSE Raise(JsonSyntaxError)

\* the earlier request functions (getHealth, getLicenseStatus,
\* getDashboardSummary, getNotifications) throw the fallback directly
EarlyOps == {"getHealth", "getLicenseStatus", "getDashboardSummary", "getNotifications"}

EarlySettle(op, resp) ==
    IF ~ResponseOk(resp.status)
    THEN Raise(Fallback(op, resp.status))
    ELSE IF resp.body.kind = "json"
         THEN Return(resp.body.data)
         ELSE Raise(JsonSyntaxError)

LoginRequired == "Email and password are required"

\* a loginUser that compares the fields as typed, without trim()
loginUserUntrimmed(email, password) ==
    IF email = <<>> \/ password = <<>>
    THEN Raise(LoginRequired)
    ELSE Return([user_id |-> UserIdOf(email), email |-> Trim(email),
                 access_token |-> "demo-session-token"])

\* loginUser: the guard on the trimmed fields, then the demo session

loginUser(email, password) ==
    IF Trim(email) = <<>> \/ Trim(password) = <<>>
    THEN Raise(LoginRequired)
    ELSE Return([user_id |-> UserIdOf(email), email |-> Trim(email),
                 access_token |-> "demo-session-token"])

\* a client in which every operation skips its request on a blank argument
RequestsIssuedGuarded(op, arg) ==
    IF op = "loginUser" \/ Trim(arg) = <<>> THEN 0 ELSE 1

\* the number of fetch calls one invocation of op makes
RequestsIssued(op, arg) ==
    CASE op = "loginUser" -> 0
      [] op = "activateLicense" -> IF Trim(arg) = <<>> THEN 0 ELSE 1
      [] OTHER -> 1

----------------------------------------------------------------------------
(* The API client invoked directly (specification ApiSpec) *)

NoResp == [status |-> 0, body |-> [kind |-> "none", detail |-> Absent, data |-> NoData]]
NoOutcome == [kind |-> "none", message |-> "", value |-> NoData]

ApiIdle == [op |-> "none", early |-> FALSE, email |-> <<>>, arg |-> <<>>, sent |-> 0,
            phase |-> "idle", resp |-> NoResp, outcome |-> NoOutcome, url |-> <<>>]

\* loginUser(email, password): settles without awaiting anything
ApiLogin(e, p) ==
    /\ api.phase = "idle"
    /\ api' = [ApiIdle EXCEPT !.op = "loginUser", !.email = e, !.arg = p,
                              !.sent = RequestsIssued("loginUser", e),
                              !.phase = "settled", !.outcome = loginUser(e, p)]
    /\ UNCHANGED <<variant, uiVars, acts, solo, serverRunning, ev, completed>>

\* a request function is called: it issues its fetch, or (activateLicense with
\* a blank key) returns at once
ApiInvoke(op, arg) ==
    /\ api.phase = "idle"
    /\ api' = IF RequestsIssued(op, arg) = 0
              THEN [ApiIdle EXCEPT !.op = op, !.arg = arg, !.phase = "settled",
                                   !.outcome = Return(Void)]
              ELSE [ApiIdle EXCEPT !.op = op, !.arg = arg, !.phase = "awaiting",
                                   !.sent = RequestsIssued(op, arg)]
    /\ UNCHANGED <<variant, uiVars, acts, solo, serverRunning, ev, completed>>

\* one of the four earlier request functions is called
ApiInvokeEarly(op, arg) ==
    /\ api.phase = "idle"
    /\ api' = [ApiIdle EXCEPT !.op = op, !.early = TRUE, !.arg = arg,
                              !.phase = "awaiting", !.sent = 1]
    /\ UNCHANGED <<variant, uiVars, acts, solo, serverRunning, ev, completed>>

\* the fetch resolves with a response and the function settles
ApiSettle(resp) ==
    /\ api.phase = "awaiting"
    /\ api' = [api EXCEPT !.phase = "settled", !.resp = resp,
                          !.outcome = IF api.early THEN EarlySettle(api.op, resp)
                                      ELSE Settle(api.op, resp)]
    /\ UNCHANGED <<variant, uiVars, acts, solo, serverRunning, ev, completed>>

ApiTags == {1, 2}

ApiNext ==
    \/ \E e \in Strs, p \in Strs : ApiLogin(e, p)
    \/ \E op \in NetOps, arg \in Strs : ApiInvoke(op, arg)
    \/ \E op \in EarlyOps, arg \in Strs : ApiInvokeEarly(op, arg)
    \/ \E r \in BOOLEAN :
          \E resp \in Responses(api.op, ApiTags, r, Statuses, ErrorBodies) : ApiSettle(resp)

----------------------------------------------------------------------------
(* The view controllers: handlers in progress *)

\* onboardingSlides.length
SlideCount == 3

NoBot == [running |-> FALSE, tag |-> 0]

\* a handler: kind names the handler, pc the call it awaits ("batch": its
\* Promise.all; "end": it has returned), id tags what the backend returns to
\* it, key is the license key it closed over, pending the reads of its batch in
\* flight, validation the status of the connect-test result it holds; issued,
\* settled and okCount are the history of its writes
NoHandler == [kind |-> "idle", pc |-> "end", id |-> 0, key |-> <<>>, pending |-> {},
              validation |-> "none", healthOk |-> FALSE, botRun |-> FALSE,
              startStep |-> "none", issued |-> <<>>, settled |-> 0, okCount |-> 0,
              watched |-> FALSE]

Handlers == BagToSet(acts)

\* the requests of a handler that are in flight
Load(a) == IF a.pc = "batch" THEN Cardinality(a.pending) ELSE 1

RECURSIVE SumLoad(_)
SumLoad(S) ==
    IF S = {} THEN 0
    ELSE LET x == CHOOSE y \in S : TRUE
         IN Load(x) * CopiesIn(x, acts) + SumLoad(S \ {x})

InFlight == SumLoad(Handlers)

\* a handler may start when fewer than MaxPending are in progress and its
\* first n requests fit
CanStart(n) == BagCardinality(acts) < MaxPending /\ InFlight + n <= MaxInFlight

Snapshot == [license |-> license, summary |-> summary, botStatus |-> botStatus,
             closedTrades |-> closedTrades, notifications |-> notifications]

\* payload tags that are displayed
UsedTags == {license, summary, closedTrades, notifications}

\* the tag of what the backend returns to the next handler: the backend's data
\* as of the press, told apart from everything displayed
FreshTag ==
    CHOOSE n \in 1..(Cardinality(UsedTags) + 1) :
        n \notin UsedTags /\ \A m \in 1..(n - 1) : m \in UsedTags

\* the handlers in progress when a begins, when a becomes b, when a returns
Begun(a) == acts (+) SetToBag({a})
Moved(a, b) == (acts (-) SetToBag({a})) (+) SetToBag({b})
Ended(a) == acts (-) SetToBag({a})
MovedOrEnded(a, b) == IF b.pc = "end" THEN Ended(a) ELSE Moved(a, b)

NoEvent == [type |-> "none", kind |-> "idle", op |-> "none", out |-> "none", msg |-> "",
            data |-> NoData, start |-> "none", issued |-> <<>>, alone |-> TRUE,
            from |-> "none", left |-> 0, healthOk |-> FALSE]

\* history of the step in which a handler returns: the handler a as it ends,
\* the call op that settled with outcome out, the stage before the step, the
\* reads of a's batch left in flight.  A step in which no handler returns
\* leaves NoEvent.
Event(type, a, op, out, left) ==
    IF a.pc # "end" THEN NoEvent
    ELSE [type |-> type, kind |-> a.kind, op |-> op, out |-> out.kind,
          msg |-> out.message, data |-> out.value, start |-> a.startStep,
          issued |-> a.issued, alone |-> solo', from |-> step, left |-> left,
          healthOk |-> a.healthOk]

DemoUser == <<"d", "e", "m", "o", "-", "u", "s", "e", "r">>

\* the state after the component is constructed
InitCommon ==
    /\ loading = FALSE
    /\ error = Null
    /\ successMessage = Null
    /\ userId = DemoUser
    /\ onboardingPage = 0
    /\ license = 0
    /\ summary = 0
    /\ botStatus = NoBot
    /\ closedTrades = 0
    /\ notifications = 0
    /\ acts = EmptyBag
    /\ solo = TRUE
    /\ serverRunning = FALSE
    /\ ev = NoEvent
    /\ completed = {}
    /\ api = ApiIdle

Init ==
    /\ variant \in {"journey", "starter"}
    /\ step = IF variant = "journey" THEN "login" ELSE "none"
    /\ health = IF variant = "journey" THEN "unknown" ELSE "Not checked"
    /\ InitCommon

ApiInit ==
    /\ variant = "client"
    /\ step = "none"
    /\ health = "unknown"
    /\ InitCommon

\* what the display shows
display == <<step, loading, error, successMessage, health, license, summary,
             botStatus, closedTrades, notifications>>

----------------------------------------------------------------------------
(* The journey view controller, src/unnamed/part_000 *)

\* the texts the login form is submitted with
FormTexts == {<<>>, <<" ">>, <<"a", "@">>}

\* a catch clause that hands setError a fixed text
CaughtMessageGeneric(o) == "Something went wrong"

\* run(): what the catch clause hands to setError
CaughtMessage(o) == o.message

\* a run() whose setLoading(false) is the last statement of the try block: a
\* task that throws skips it
LoadingAfterTry(o) == o.kind = "raise"

\* run() / onCheckHealth / onLoadUserData: finally { setLoading(false) },
\* whether the task returned or threw
LoadingAfter(o) == FALSE

\* the prologue of run(): setLoading(true); resetFeedback()
RunPrologue ==
    /\ loading' = TRUE
    /\ error' = Null
    /\ successMessage' = Null

\* handleLogin: loginUser settles without a network call, so the whole handler
\* runs before anything else can
PressLogin(e, p) ==
    /\ variant = "journey"
    /\ step = "login"
    /\ LET o == loginUser(e, p)
           a == [NoHandler EXCEPT !.kind = "login", !.startStep = step,
                                  !.issued = <<"loginUser">>, !.settled = 1,
                                  !.okCount = IF o.kind = "return" THEN 1 ELSE 0]
       IN /\ loading' = LoadingAfter(o)
          /\ IF o.kind = "raise"
             THEN /\ error' = CaughtMessage(o)
                  /\ successMessage' = Null
                  /\ UNCHANGED <<userId, step>>
             ELSE /\ error' = Null
                  /\ successMessage' = "Logged in successfully"
                  /\ userId' = o.value.user_id
                  /\ step' = "onboarding"
          /\ solo' = (acts = EmptyBag)
          /\ UNCHANGED <<variant, onboardingPage, health, license, summary, botStatus,
                         closedTrades, notifications, acts, serverRunning, api, completed>>
          /\ ev' = Event("settled", a, "loginUser", o, 0)

\* handleSkipOnboarding
PressSkip ==
    /\ variant = "journey"
    /\ step = "onboarding"
    /\ error' = Null
    /\ successMessage' = Null
    /\ step' = "connect"
    /\ UNCHANGED <<variant, loading, userId, onboardingPage, health, license, summary,
                   botStatus, closedTrades, notifications, acts, solo,
                   serverRunning, api, completed>>
    /\ ev' = NoEvent

\* a guard that lets the last slide through: > in place of >=
OnLastSlideLate(page) == page > SlideCount - 1

\* handleNextOnboarding: onboardingPage >= onboardingSlides.length - 1
OnLastSlide(page) == page >= SlideCount - 1

\* handleNextOnboarding
PressNext ==
    /\ variant = "journey"
    /\ step = "onboarding"
    /\ IF OnLastSlide(onboardingPage)
       THEN step' = "connect" /\ UNCHANGED onboardingPage
       ELSE onboardingPage' = onboardingPage + 1 /\ UNCHANGED step
    /\ UNCHANGED <<variant, loading, error, successMessage, userId, health, license,
                   summary, botStatus, closedTrades, notifications, acts, solo,
                   serverRunning, api, completed>>
    /\ ev' = NoEvent

\* handleConnectMT5 up to its first await: run(() => connectMT5(...))
PressConnect ==
    /\ variant = "journey"
    /\ step = "connect"
    /\ CanStart(1)
    /\ RunPrologue
    /\ LET a == [NoHandler EXCEPT !.kind = "connect", !.pc = "connectMT5",
                                  !.startStep = step, !.issued = <<"connectMT5">>]
       IN /\ acts' = Begun(a)
          /\ solo' = (acts = EmptyBag)
          /\ UNCHANGED <<variant, step, userId, onboardingPage, health, license,
                         summary, botStatus, closedTrades, notifications, 
                         serverRunning, api, completed>>
          /\ ev' = NoEvent

\* a handler that takes a connect-test result of any status as a go-ahead
AfterConnectTestUnchecked(o) ==
    IF o.kind = "raise" THEN "end" ELSE "saveMT5Account"

\* handleConnectMT5 after the connect test: return when run() gave null, stop
\* when the status is "failed", otherwise go on to saveMT5Account
AfterConnectTest(o) ==
    IF o.kind = "raise" THEN "end"
    ELSE IF o.value.status = "failed" THEN "stop"
    ELSE "saveMT5Account"

\* the writes the stages stand for
StageWrites == {"saveMT5Account", "saveTradingConfig", "saveRiskConfig",
                "saveSessionConfig"}

\* the writes that have completed successfully once the write op has settled
\* with outcome o
CompletedAfter(op, o) ==
    IF o.kind = "return" /\ op \in StageWrites THEN completed \cup {op} ELSE completed

\* the bookkeeping of a handler whose call settled with outcome o
Settled(a, o) ==
    [a EXCEPT !.settled = @ + 1, !.okCount = IF o.kind = "return" THEN @ + 1 ELSE @]

\* the connect test settles
ConnectTestSettled(a, resp) ==
    /\ a \in Handlers
    /\ a.kind = "connect"
    /\ a.pc = "connectMT5"
    /\ LET o == Settle("connectMT5", resp)
           nxt == AfterConnectTest(o)
           v == IF o.kind = "return" THEN o.value.status ELSE "none"
           b == IF nxt = "saveMT5Account"
                THEN [Settled(a, o) EXCEPT !.pc = nxt, !.issued = Append(@, nxt),
                                           !.validation = v]
                ELSE [Settled(a, o) EXCEPT !.pc = "end", !.validation = v]
       IN /\ CASE nxt = "end" ->
                    /\ loading' = LoadingAfter(o)
                    /\ error' = CaughtMessage(o)
                    /\ UNCHANGED successMessage
              [] nxt = "stop" ->
                    /\ loading' = LoadingAfter(o)
                    /\ error' = o.value.message
                    /\ UNCHANGED successMessage
              [] OTHER -> RunPrologue
          /\ acts' = MovedOrEnded(a, b)
          /\ UNCHANGED <<variant, step, userId, onboardingPage, health, license,
                         summary, botStatus, closedTrades, notifications, 
                         solo, serverRunning, api, completed>>
          /\ ev' = Event("settled", b, "connectMT5", o, 0)

\* saveMT5Account settles
SaveAccountSettled(a, resp) ==
    /\ a \in Handlers
    /\ a.kind = "connect"
    /\ a.pc = "saveMT5Account"
    /\ LET o == Settle("saveMT5Account", resp)
           b == [Settled(a, o) EXCEPT !.pc = "end"]
       IN /\ loading' = LoadingAfter(o)
          /\ IF o.kind = "raise"
             THEN /\ error' = CaughtMessage(o)
                  /\ UNCHANGED <<successMessage, step>>
             ELSE /\ successMessage' = "MT5 account connected"
                  /\ step' = "configure"
                  /\ UNCHANGED error
          /\ acts' = Ended(a)
          /\ completed' = CompletedAfter("saveMT5Account", o)
          /\ UNCHANGED <<variant, userId, onboardingPage, health, license, summary,
                         botStatus, closedTrades, notifications, solo,
                         serverRunning, api>>
          /\ ev' = Event("settled", b, "saveMT5Account", o, 0)

----------------------------------------------------------------------------
(* handleSaveConfiguration *)

\* symbols.split(",")
RECURSIVE Split(_)
Split(s) ==
    IF \A i \in 1..Len(s) : s[i] # ","
    THEN <<s>>
    ELSE LET i == CHOOSE k \in 1..Len(s) : s[k] = "," /\ \A j \in 1..(k - 1) : s[j] # ","
         IN <<SubSeq(s, 1, i - 1)>> \o Split(SubSeq(s, i + 1, Len(s)))

ToUpperChar(c) == IF c = "a" THEN "A" ELSE c

NonEmpty(t) == t # <<>>

\* .map((item) => item.trim().toUpperCase()).filter(Boolean)
AssetList(symbols) ==
    LET parts == Split(symbols)
        mapped == [i \in 1..Len(parts) |->
                      [j \in 1..Len(Trim(parts[i])) |-> ToUpperChar(Trim(parts[i])[j])]]
    IN SelectSeq(mapped, NonEmpty)

\* what the symbols field and the license key field are submitted with
SymbolTexts == {<<>>, <<" ", ",">>, <<"a">>, <<"a", ",", "B">>}
KeyTexts == {<<" ">>, <<"a">>}

NoSymbols == "Add at least one symbol (e.g. XAUUSD)"

ConfigWrites == {"saveTradingConfig", "saveRiskConfig", "saveSessionConfig",
                 "activateLicense"}

\* a handler that goes home after its first write
NextCallShort(op, key) == "finish"

\* the call that follows a write that succeeded
NextCall(op, key) ==
    CASE op = "saveTradingConfig" -> "saveRiskConfig"
      [] op = "saveRiskConfig"    -> "saveSessionConfig"
      [] op = "saveSessionConfig" ->
            IF Trim(key) # <<>> /\ RequestsIssued("activateLicense", key) = 1
            THEN "activateLicense" ELSE "finish"
      [] OTHER -> "finish"

\* a handler without the `=== null` checks: it goes on after a failed write
AfterWriteUnchecked(op, o, key) == NextCall(op, key)

\* a handler that issues a failed write again
AfterWriteRetrying(op, o, key) ==
    IF o.kind = "raise" THEN op ELSE NextCall(op, key)

\* after each write: return when run() gave null, otherwise go on
AfterWrite(op, o, key) ==
    IF o.kind = "raise" THEN "end" ELSE NextCall(op, key)

\* the reads of refreshHome's Promise.all, and of onLoadUserData's
HomeReads == {"getHealth", "getLicenseStatus", "getDashboardSummary", "getBotStatus",
              "getClosedTrades", "getNotifications"}
UserDataReads == {"getLicenseStatus", "getDashboardSummary", "getNotifications"}

\* the handler a calls refreshHome (or is onLoadUserData): a batch of reads
\* is issued; the history of a's writes ends here
WithBatch(a, reads) ==
    [a EXCEPT !.pc = "batch", !.pending = reads, !.healthOk = FALSE, !.botRun = FALSE,
              !.key = <<>>, !.issued = <<>>, !.settled = 0, !.okCount = 0]

\* handleSaveConfiguration up to its first await
PressSave(sym, key) ==
    /\ variant = "journey"
    /\ step = "configure"
    /\ LET a == [NoHandler EXCEPT !.kind = "save", !.pc = "saveTradingConfig",
                                  !.id = FreshTag, !.key = key, !.startStep = step,
                                  !.issued = <<"saveTradingConfig">>]
       IN /\ IF AssetList(sym) = <<>>
             THEN /\ error' = NoSymbols
                  /\ UNCHANGED <<loading, successMessage, acts, solo>>
             ELSE /\ CanStart(1)
                  /\ RunPrologue
                  /\ acts' = Begun(a)
                  /\ solo' = (acts = EmptyBag)
          /\ UNCHANGED <<variant, step, userId, onboardingPage, health, license,
                         summary, botStatus, closedTrades, notifications, 
                         serverRunning, api, completed>>
          /\ ev' = IF AssetList(sym) = <<>>
                   THEN Event("local", [NoHandler EXCEPT !.kind = "save",
                                                         !.startStep = step],
                              "none", NoOutcome, 0)
                   ELSE NoEvent

\* one of the configuration writes settles
ConfigWriteSettled(a, resp) ==
    /\ a \in Handlers
    /\ a.kind = "save"
    /\ a.pc \in ConfigWrites
    /\ LET op == a.pc
           o == Settle(op, resp)
           nxt == AfterWrite(op, o, a.key)
           b == CASE nxt = "end" -> [Settled(a, o) EXCEPT !.pc = "end"]
                  [] nxt = "finish" -> WithBatch(Settled(a, o), HomeReads)
                  [] OTHER -> [Settled(a, o) EXCEPT !.pc = nxt, !.issued = Append(@, nxt)]
       IN /\ CASE nxt = "end" ->
                    /\ loading' = LoadingAfter(o)
                    /\ error' = CaughtMessage(o)
                    /\ UNCHANGED <<successMessage, step>>
              [] nxt = "finish" ->
                    \* setSuccessMessage; setStep("home"); refreshHome(): run()
                    /\ InFlight - 1 + Cardinality(HomeReads) <= MaxInFlight
                    /\ step' = "home"
                    /\ RunPrologue
              [] OTHER ->
                    /\ RunPrologue
                    /\ UNCHANGED step
          /\ acts' = MovedOrEnded(a, b)
          /\ completed' = CompletedAfter(op, o)
          /\ UNCHANGED <<variant, userId, onboardingPage, health, license, summary,
                         botStatus, closedTrades, notifications, solo,
                         serverRunning, api>>
          /\ ev' = Event("settled", b, op, o, Cardinality(b.pending))

----------------------------------------------------------------------------
(* refreshHome, the bot handlers, and the starter's handlers *)

\* the request functions the mounted component imports
SettleRead(op, resp) ==
    IF variant = "starter" THEN EarlySettle(op, resp) ELSE Settle(op, resp)

\* refreshHome from the Refresh button, up to the await of its Promise.all
PressRefresh ==
    /\ variant = "journey"
    /\ step = "home"
    /\ CanStart(Cardinality(HomeReads))
    /\ RunPrologue
    /\ LET a == WithBatch([NoHandler EXCEPT !.kind = "refresh", !.id = FreshTag,
                                            !.startStep = step], HomeReads)
       IN /\ acts' = Begun(a)
          /\ solo' = (acts = EmptyBag)
          /\ UNCHANGED <<variant, step, userId, onboardingPage, health, license,
                         summary, botStatus, closedTrades, notifications, 
                         serverRunning, api, completed>>
          /\ ev' = NoEvent

\* a refresh that shows what it has been handed whether or not its batch was
\* fulfilled
SliceAfterEager(cur, new, fulfilled) == new

\* refreshHome / onLoadUserData: a slice is set from the batch's result when
\* the batch was fulfilled, and is not touched otherwise
SliceAfter(cur, new, fulfilled) == IF fulfilled THEN new ELSE cur

\* an indicator that follows the health read alone, whatever became of the
\* rest of the batch
HealthAfterBatchOwn(fulfilled, ok) == IF ok THEN "healthy" ELSE "unhealthy"

\* refreshHome after run(): "unhealthy" when the result is null, otherwise
\* result.healthResult.ok ? "healthy" : "unhealthy"
HealthAfterBatch(fulfilled, ok) ==
    IF ~fulfilled THEN "unhealthy"
    ELSE IF ok THEN "healthy" ELSE "unhealthy"

\* the order of the reads in the array handed to Promise.all
ReadOrder == <<"getHealth", "getLicenseStatus", "getDashboardSummary", "getBotStatus",
               "getClosedTrades", "getNotifications">>

\* the first read of the array that is still in flight
FirstPending(pending) ==
    ReadOrder[CHOOSE i \in 1..Len(ReadOrder) :
                 /\ ReadOrder[i] \in pending
                 /\ \A j \in 1..(i - 1) : ReadOrder[j] \notin pending]

\* one read of a batch settles while the Promise.all is still awaited: the
\* first rejection rejects it at once, the last fulfilment fulfils it.  The
\* reads still in flight at a rejection settle into promises nothing awaits:
\* they change no state and are followed no further.  Any
\* read in flight may be the one that fails; Promise.all holds the fulfilled
\* values until the last one is in, so the order among the fulfilments of one
\* batch shows nowhere and they are taken in the order of the array.
ReadSettled(a, op, resp) ==
    /\ a \in Handlers
    /\ a.pc = "batch"
    /\ op \in a.pending
    /\ SettleRead(op, resp).kind = "raise" \/ op = FirstPending(a.pending)
    /\ LET o == SettleRead(op, resp)
           rest == a.pending \ {op}
           c == [a EXCEPT
                   !.pending = rest,
                   !.healthOk = IF op = "getHealth" /\ o.kind = "return"
                                THEN o.value.ok ELSE @,
                   !.botRun = IF op = "getBotStatus" /\ o.kind = "return"
                              THEN o.value.running ELSE @]
           b == IF o.kind = "raise" \/ rest = {} THEN [c EXCEPT !.pc = "end"] ELSE c
       IN /\ CASE o.kind = "raise" ->
                    \* run(): catch, finally; refreshHome: setHealth("unhealthy")
                    /\ loading' = LoadingAfter(o)
                    /\ error' = CaughtMessage(o)
                    /\ health' = IF variant = "journey"
                                 THEN HealthAfterBatch(FALSE, b.healthOk)
                                 ELSE health
              [] o.kind = "return" /\ rest = {} ->
                    /\ loading' = LoadingAfter(o)
                    /\ health' = IF variant = "journey"
                                 THEN HealthAfterBatch(TRUE, b.healthOk)
                                 ELSE health
                    /\ UNCHANGED error
              [] OTHER ->
                    UNCHANGED <<loading, error, health>>
          /\ LET fulfilled == o.kind = "return" /\ rest = {}
                 home == variant = "journey"
             IN /\ license' = SliceAfter(license, b.id, fulfilled)
                /\ summary' = SliceAfter(summary, b.id, fulfilled)
                /\ notifications' = SliceAfter(notifications, b.id, fulfilled)
                /\ closedTrades' = IF home THEN SliceAfter(closedTrades, b.id, fulfilled)
                                   ELSE closedTrades
                /\ botStatus' = IF home
                                THEN SliceAfter(botStatus, [running |-> b.botRun,
                                                            tag |-> 1], fulfilled)
                                ELSE botStatus
          /\ acts' = MovedOrEnded(a, b)
          /\ UNCHANGED <<variant, step, successMessage, userId, onboardingPage, solo,
                         serverRunning, api, completed>>
          /\ ev' = Event("settled", b, op, o, Cardinality(rest))

\* the button is wired to handleStopBot when botStatus?.running, else handleStartBot
BotOp == IF botStatus.running THEN "stopBot" ELSE "startBot"

\* handleStartBot / handleStopBot up to the first await
PressBot ==
    /\ variant = "journey"
    /\ step = "home"
    /\ CanStart(1)
    /\ RunPrologue
    /\ LET a == [NoHandler EXCEPT !.kind = "bot", !.pc = BotOp, !.id = FreshTag,
                                  !.startStep = step, !.issued = <<BotOp>>]
       IN /\ acts' = Begun(a)
          /\ solo' = (acts = EmptyBag)
          /\ UNCHANGED <<variant, step, userId, onboardingPage, health, license,
                         summary, botStatus, closedTrades, notifications, 
                         serverRunning, api, completed>>
          /\ ev' = NoEvent

\* startBot / stopBot settles; the backend changed the run state when it
\* answered in the success range
BotCallSettled(a, resp) ==
    /\ a \in Handlers
    /\ a.kind = "bot"
    /\ a.pc \in {"startBot", "stopBot"}
    /\ LET op == a.pc
           o == Settle(op, resp)
           b == IF o.kind = "raise" THEN [Settled(a, o) EXCEPT !.pc = "end"]
                ELSE WithBatch(Settled(a, o), HomeReads)
       IN /\ serverRunning' = IF ResponseOk(resp.status) THEN op = "startBot"
                              ELSE serverRunning
          /\ IF o.kind = "raise"
             THEN /\ loading' = LoadingAfter(o)
                  /\ error' = CaughtMessage(o)
                  /\ UNCHANGED <<successMessage, botStatus>>
             ELSE \* setSuccessMessage; setBotStatus(result); refreshHome(): run()
                  /\ InFlight - 1 + Cardinality(HomeReads) <= MaxInFlight
                  /\ botStatus' = o.value
                  /\ RunPrologue
          /\ acts' = MovedOrEnded(a, b)
          /\ UNCHANGED <<variant, step, userId, onboardingPage, health, license,
                         summary, closedTrades, notifications, solo, api, completed>>
          /\ ev' = Event("settled", b, op, o, Cardinality(b.pending))

\* App.tsx onCheckHealth up to its await
PressCheckHealth ==
    /\ variant = "starter"
    /\ CanStart(1)
    /\ loading' = TRUE
    /\ error' = Null
    /\ LET a == [NoHandler EXCEPT !.kind = "health", !.pc = "getHealth",
                                  !.issued = <<"getHealth">>]
       IN /\ acts' = Begun(a)
          /\ solo' = (acts = EmptyBag)
          /\ UNCHANGED <<variant, step, successMessage, userId, onboardingPage, health,
                         license, summary, botStatus, closedTrades, notifications,
                         serverRunning, api, completed>>
          /\ ev' = NoEvent

\* App.tsx onCheckHealth after getHealth settled
HealthSettled(a, resp) ==
    /\ a \in Handlers
    /\ a.kind = "health"
    /\ a.pc = "getHealth"
    /\ LET o == EarlySettle("getHealth", resp)
           b == [Settled(a, o) EXCEPT !.pc = "end"]
       IN /\ loading' = LoadingAfter(o)
          /\ IF o.kind = "raise"
             THEN error' = CaughtMessage(o) /\ UNCHANGED health
             ELSE /\ health' = IF o.value.ok THEN "API is healthy"
                               ELSE "API responded but not healthy"
                  /\ UNCHANGED error
          /\ acts' = Ended(a)
          /\ UNCHANGED <<variant, step, successMessage, userId, onboardingPage, license,
                         summary, botStatus, closedTrades, notifications, solo,
                         serverRunning, api, completed>>
          /\ ev' = Event("settled", b, "getHealth", o, 0)

UserIdRequired == "User ID is required"

\* the texts typed into the User ID field
UserIdTexts == {DemoUser, <<" ">>}

\* App.tsx: the User ID field is edited (onChangeText={setUserId})
EditUserId(uid) ==
    /\ variant = "starter"
    /\ uid # userId
    /\ userId' = uid
    /\ UNCHANGED <<variant, step, loading, error, successMessage, onboardingPage,
                   health, license, summary, botStatus, closedTrades, notifications,
                   acts, solo, serverRunning, api, completed>>
    /\ ev' = NoEvent

\* App.tsx onLoadUserData up to the await of its Promise.all
PressLoadUserData ==
    /\ variant = "starter"
    /\ LET a == WithBatch([NoHandler EXCEPT !.kind = "load", !.id = FreshTag],
                          UserDataReads)
       IN /\ IF Len(Trim(userId)) > 0
             THEN /\ CanStart(Cardinality(UserDataReads))
                  /\ loading' = TRUE
                  /\ error' = Null
                  /\ acts' = Begun(a)
                  /\ solo' = (acts = EmptyBag)
             ELSE /\ error' = UserIdRequired
                  /\ UNCHANGED <<loading, acts, solo>>
          /\ UNCHANGED <<variant, step, successMessage, userId, onboardingPage, health,
                         license, summary, botStatus, closedTrades, notifications,
                         serverRunning, api, completed>>
          /\ ev' = IF Len(Trim(userId)) > 0
                   THEN NoEvent
                   ELSE Event("local", [NoHandler EXCEPT !.kind = "load"], "none",
                              NoOutcome, 0)

----------------------------------------------------------------------------
(* Specifications *)

\* the answers the view controllers are run against: one status inside and one
\* outside the success range, an error body with a detail, success bodies that
\* are the JSON of the operation
NetStatuses == {200, 500}
NetErrorBodies == {[kind |-> "json", detail |-> [t |-> "string", v |-> "bad creds"],
                    data |-> NoData]}

\* what the backend may answer to the request op of the handler a
Answers(a, op) ==
    {r \in Responses(op, {a.id},
                     IF op = "startBot" THEN TRUE
                     ELSE IF op = "stopBot" THEN FALSE ELSE serverRunning,
                     NetStatuses, NetErrorBodies) : r.body.kind = "json"}

Next ==
    \/ \E e \in FormTexts, p \in FormTexts : PressLogin(e, p)
    \/ PressSkip
    \/ PressNext
    \/ PressConnect
    \/ \E a \in Handlers : \E resp \in Answers(a, "connectMT5") : ConnectTestSettled(a, resp)
    \/ \E a \in Handlers : \E resp \in Answers(a, "saveMT5Account") : SaveAccountSettled(a, resp)
    \/ \E sym \in SymbolTexts, key \in KeyTexts : PressSave(sym, key)
    \/ \E a \in Handlers : \E resp \in Answers(a, a.pc) : ConfigWriteSettled(a, resp)
    \/ PressRefresh
    \/ \E a \in Handlers : \E op \in a.pending :
          \E resp \in Answers(a, op) : ReadSettled(a, op, resp)
    \/ PressBot
    \/ \E a \in Handlers : \E resp \in Answers(a, a.pc) : BotCallSettled(a, resp)
    \/ PressCheckHealth
    \/ \E a \in Handlers : \E resp \in Answers(a, "getHealth") : HealthSettled(a, resp)
    \/ \E uid \in UserIdTexts : EditUserId(uid)
    \/ PressLoadUserData

Spec == Init /\ [][Next]_vars

ApiSpec == ApiInit /\ [][ApiNext]_vars

\* the journey run against a backend that answers every request in the success
\* range, with a login form that is filled in
OkAnswers(a, op) == {r \in Answers(a, op) : ResponseOk(r.status)}

OkInit == Init /\ variant = "journey"

OkNext ==
    \/ \E e \in FormTexts, p \in FormTexts :
          loginUser(e, p).kind = "return" /\ PressLogin(e, p)
    \/ PressSkip
    \/ PressNext
    \/ PressConnect
    \/ \E a \in Handlers : \E resp \in OkAnswers(a, "connectMT5") : ConnectTestSettled(a, resp)
    \/ \E a \in Handlers : \E resp \in OkAnswers(a, "saveMT5Account") : SaveAccountSettled(a, resp)
    \/ \E sym \in SymbolTexts, key \in KeyTexts : PressSave(sym, key)
    \/ \E a \in Handlers : \E resp \in OkAnswers(a, a.pc) : ConfigWriteSettled(a, resp)
    \/ PressRefresh
    \/ \E a \in Handlers : \E op \in a.pending :
          \E resp \in OkAnswers(a, op) : ReadSettled(a, op, resp)
    \/ PressBot
    \/ \E a \in Handlers : \E resp \in OkAnswers(a, a.pc) : BotCallSettled(a, resp)

OkSpec == OkInit /\ [][OkNext]_vars

\* history: one action in progress is singled out to be followed to its end;
\* no program state changes
Watch(a) ==
    /\ a \in Handlers
    /\ \A b \in Handlers : ~b.watched
    /\ acts' = Moved(a, [a EXCEPT !.watched = TRUE])
    /\ ev' = NoEvent
    /\ UNCHANGED <<variant, uiVars, solo, serverRunning, api, completed>>

\* the response to a call of the followed action arrives
WatchedSettles ==
    \E a \in Handlers :
       /\ a.watched
       /\ \/ \E resp \in Answers(a, "connectMT5") : ConnectTestSettled(a, resp)
          \/ \E resp \in Answers(a, "saveMT5Account") : SaveAccountSettled(a, resp)
          \/ \E resp \in Answers(a, a.pc) : ConfigWriteSettled(a, resp)
          \/ \E op \in a.pending : \E resp \in Answers(a, op) : ReadSettled(a, op, resp)
          \/ \E resp \in Answers(a, a.pc) : BotCallSettled(a, resp)
          \/ \E resp \in Answers(a, "getHealth") : HealthSettled(a, resp)

\* a handler is started while nothing is in progress or beside the followed
\* action: whatever overlaps the followed action started after it
Quiet == acts = EmptyBag \/ \E h \in Handlers : h.watched

\* the asynchronous handlers and the presses that lead to them (one way
\* through the onboarding, a symbol list that names an asset), and the
\* choice of the action that is followed
LiveNext ==
    \/ \E e \in FormTexts, p \in FormTexts : PressLogin(e, p)
    \/ PressSkip
    \/ Quiet /\ PressConnect
    \/ \E a \in Handlers : \E resp \in Answers(a, "connectMT5") : ConnectTestSettled(a, resp)
    \/ \E a \in Handlers : \E resp \in Answers(a, "saveMT5Account") : SaveAccountSettled(a, resp)
    \/ \E sym \in {x \in SymbolTexts : AssetList(x) # <<>>}, key \in KeyTexts :
          Quiet /\ PressSave(sym, key)
    \/ \E a \in Handlers : \E resp \in Answers(a, a.pc) : ConfigWriteSettled(a, resp)
    \/ Quiet /\ PressRefresh
    \/ \E a \in Handlers : \E op \in a.pending :
          \E resp \in Answers(a, op) : ReadSettled(a, op, resp)
    \/ Quiet /\ PressBot
    \/ \E a \in Handlers : \E resp \in Answers(a, a.pc) : BotCallSettled(a, resp)
    \/ Quiet /\ PressCheckHealth
    \/ \E a \in Handlers : \E resp \in Answers(a, "getHealth") : HealthSettled(a, resp)
    \/ Quiet /\ PressLoadUserData
    \/ \E a \in Handlers : Watch(a)

\* every call the followed action issues eventually resolves or rejects
LiveSpec == Init /\ [][LiveNext]_vars /\ WF_vars(WatchedSettles)

\* a request function of either version is about to be called with a base URL
UrlInit ==
    /\ variant = "client"
    /\ step = "none"
    /\ health = "unknown"
    /\ loading = FALSE /\ error = Null /\ successMessage = Null
    /\ userId = DemoUser /\ onboardingPage = 0
    /\ license = 0 /\ summary = 0 /\ closedTrades = 0 /\ notifications = 0
    /\ botStatus = NoBot
    /\ acts = EmptyBag /\ solo = TRUE /\ serverRunning = FALSE /\ ev = NoEvent
    /\ completed = {}
    /\ \E op \in NetOps, early \in BOOLEAN, base \in BaseUrls :
          /\ early => op \in EarlyOps
          /\ api = [ApiIdle EXCEPT !.op = op, !.early = early, !.arg = base]

\* the function builds the URL of its request and hands it to fetch
ApiFetch ==
    /\ api.phase = "idle"
    /\ api' = [api EXCEPT !.url = endpoint(api.arg, PathOf(api.op, api.early)),
                          !.sent = 1, !.phase = "awaiting"]
    /\ UNCHANGED <<variant, uiVars, acts, solo, serverRunning, ev, completed>>

UrlNext == ApiFetch

UrlSpec == UrlInit /\ [][UrlNext]_vars

----------------------------------------------------------------------------
(* Properties of the API client, checked under ApiSpec *)

\* the invocation has settled after one request that was answered outside the
\* success range
FailedResponse ==
    /\ api.phase = "settled"
    /\ api.sent = 1
    /\ ~(api.resp.status >= 200 /\ api.resp.status <= 299)

\* a text that is empty or made of spaces only
Blank(s) == \A i \in 1..Len(s) : s[i] = " "

\* C1: for every operation that contacts the backend, a response outside the
\* success range whose body is JSON with a non-empty detail string X makes the
\* operation raise a failure whose message is X.
C1_DetailIsTheMessage ==
    (/\ FailedResponse
     /\ api.resp.body.kind = "json"
     /\ api.resp.body.detail.t = "string"
     /\ api.resp.body.detail.v # "")
    => (/\ api.outcome.kind = "raise"
        /\ api.outcome.message = api.resp.body.detail.v)

\* C2: for every operation that contacts the backend, a response outside the
\* success range whose body is empty, not JSON, or JSON without a detail field
\* makes the operation raise "<operation> failed with status <code>", and the
\* operation returns no value.
C2_FallbackMessage ==
    (/\ FailedResponse
     /\ \/ api.resp.body.kind \in {"empty", "text"}
        \/ api.resp.body.kind = "json" /\ api.resp.body.detail.t = "undefined")
    => (/\ api.outcome.kind = "raise"
        /\ api.outcome.message =
              Label(api.op) \o " failed with status " \o ToString(api.resp.status))

C2_Witness ==
    /\ FailedResponse
    /\ api.op = "connectMT5"
    /\ api.resp.status = 404
    /\ api.resp.body.kind = "text"
    /\ api.outcome = Raise("MT5 connect test failed with status 404")

\* C3: loginUser makes no network call whatever its input; it raises exactly
\* when the email or the password is empty or made of spaces only, and returns
\* a session for every other input.
C3_LoginLocalGuard ==
    api.op = "loginUser"
    => (/\ api.sent = 0
        /\ api.phase = "settled"
        /\ api.resp = NoResp
        /\ IF Blank(api.email) \/ Blank(api.arg)
           THEN api.outcome.kind = "raise"
           ELSE /\ api.outcome.kind = "return"
                /\ api.outcome.value.access_token = "demo-session-token")

C3_Witness ==
    /\ api.op = "loginUser"
    /\ api.email = <<"a", "@">>
    /\ api.arg = <<" ", " ">>
    /\ api.outcome = Raise(LoginRequired)

\* C10 as stated: login is the only operation that checks its input locally;
\* every other operation, activateLicense included, issues exactly one HTTP
\* request on every invocation, whatever its arguments.
C10_OneRequestEach ==
    /\ api.op = "loginUser" => api.sent = 0
    /\ api.op \in NetOps => api.sent = 1

\* C10 amended: login is the only operation that fails on its input without a
\* request; activateLicense issues one request when its key is not blank and
\* returns without a request (and without a failure) when it is blank; every
\* other operation issues exactly one request on every invocation.
C10_OneRequestUnlessBlankKey ==
    /\ api.op = "loginUser" => api.sent = 0
    /\ api.op = "activateLicense" =>
          /\ api.sent = IF Blank(api.arg) THEN 0 ELSE 1
          /\ Blank(api.arg) => api.phase = "settled" /\ api.outcome = Return(Void)
    /\ api.op \in NetOps \ {"activateLicense"} => api.sent = 1
    /\ api.outcome.kind = "raise" /\ api.sent = 0 => api.op = "loginUser"

C10_Witness ==
    /\ api.op = "activateLicense"
    /\ api.arg = <<" ">>
    /\ api.sent = 0
    /\ api.outcome = Return(Void)

\* the invocation has settled after one request that was answered in the
\* success range
SucceededResponse ==
    /\ api.phase = "settled"
    /\ api.sent = 1
    /\ api.resp.status >= 200 /\ api.resp.status <= 299

\* the operations declared Promise<void>
WriteOnly == {"saveMT5Account", "saveTradingConfig", "saveRiskConfig",
              "saveSessionConfig", "activateLicense"}

\* C11: on a response in the success range whose body is valid JSON, every
\* value-returning operation returns exactly the decoded body, and every
\* write-only operation (saveMT5Account, saveTradingConfig, saveRiskConfig,
\* saveSessionConfig, activateLicense) completes without a value.
C11_DecodedBodyReturned ==
    (SucceededResponse /\ api.resp.body.kind = "json")
    => (/\ api.outcome.kind = "return"
        /\ IF api.op \in WriteOnly
           THEN api.outcome.value = Void
           ELSE api.outcome.value = api.resp.body.data)

C11_Witness ==
    /\ SucceededResponse
    /\ api.op = "connectMT5"
    /\ api.resp.body.kind = "json"
    /\ api.resp.body.data.status = "provider_unavailable"
    /\ api.outcome.kind = "return"
    /\ api.outcome.value = [status |-> "provider_unavailable", message |-> "bad creds"]

\* C12 as stated: for every operation, a response in the success range whose
\* body cannot be decoded as JSON makes the operation raise; none completes
\* normally on such a response.
C12_UndecodableBodyRaises ==
    (SucceededResponse /\ api.resp.body.kind # "json")
    => api.outcome.kind = "raise"

\* C12 amended: on a response in the success range whose body cannot be
\* decoded as JSON, every value-returning operation raises; the write-only
\* operations never read the body of a success and complete normally without a
\* value.
C12_UndecodableBodyRaisesWhenRead ==
    (SucceededResponse /\ api.resp.body.kind # "json")
    => IF api.op \in WriteOnly
       THEN api.outcome = Return(Void)
       ELSE api.outcome.kind = "raise" /\ api.outcome.value = NoData

C12_Witness ==
    /\ SucceededResponse
    /\ api.op = "getHealth"
    /\ api.resp.status = 204
    /\ api.resp.body.kind = "empty"
    /\ api.outcome.kind = "raise"

----------------------------------------------------------------------------
(* Properties of endpoint, checked under UrlSpec *)

EndsInSlash(s) == s # <<>> /\ s[Len(s)] = "/"

\* C14: the URL requested is the base URL, with exactly one trailing slash
\* removed when it ends in a slash and unchanged otherwise, followed by the
\* path; a base URL with and without one trailing slash give the same URL; a
\* base URL that ends in two slashes keeps one of them.
C14_OneTrailingSlashRemoved ==
    api.phase = "awaiting" =>
       LET base == api.arg
           path == PathOf(api.op, api.early)
           n == Len(base)
       IN /\ api.sent = 1
          /\ Len(api.url) = (IF EndsInSlash(base) THEN n - 1 ELSE n) + Len(path)
          /\ \A i \in 1..Len(api.url) :
                api.url[i] = IF i <= Len(api.url) - Len(path)
                             THEN base[i]
                             ELSE path[i - (Len(api.url) - Len(path))]
          /\ ~EndsInSlash(base) => endpoint(Append(base, "/"), path) = api.url
          /\ n >= 2 /\ base[n] = "/" /\ base[n - 1] = "/" =>
                api.url[Len(api.url) - Len(path)] = "/"

C14_Witness ==
    /\ api.phase = "awaiting"
    /\ api.op = "getHealth"
    /\ api.arg = <<"/", "/">>
    /\ api.url = <<"/", "/", "health">>

----------------------------------------------------------------------------
(* Properties of the view controllers, checked under Spec *)

\* the last step ended a handler of one of kinds on a call that failed
FailedEnd(kinds) ==
    /\ ev.type = "settled"
    /\ ev.kind \in kinds
    /\ ev.out = "raise"

\* the last step ended a connect action on a connect test that the backend
\* answered in the success range with the status "failed"
ConnectTestFailed ==
    /\ ev.type = "settled"
    /\ ev.op = "connectMT5"
    /\ ev.out = "return"
    /\ ev.data.status = "failed"

\* C4: in the connect action, a connect test answered in the success range with
\* the status "failed" stops the action: the action never issues
\* saveMT5Account, it leaves the stage where it is (at connect, when the action
\* ran on its own), and the displayed error is the message of the response.
C4_FailedValidationStops ==
    /\ \A a \in Handlers : a.kind = "connect" => a.validation # "failed"
    /\ ConnectTestFailed =>
          /\ ev.issued = <<"connectMT5">>
          /\ step = ev.from
          /\ ev.alone => step = "connect"
          /\ error = ev.data.message

C4_Witness ==
    /\ ConnectTestFailed
    /\ ev.alone
    /\ step = "connect"
    /\ error = "bad creds"
    /\ acts = EmptyBag

StageAdvancing == {"login", "connect", "save"}

\* C5 as stated: for each stage-advancing action (login, connect, save
\* configuration) run on its own, if any call issued by the action fails then,
\* when the action completes, the stage is the one the action started in and
\* the displayed error is the message of that failure.
C5_FailureKeepsStartStage ==
    FailedEnd(StageAdvancing) /\ ev.alone
    => (step = ev.start /\ error = ev.msg)

\* C5 amended: for each stage-advancing action run on its own, a failure of
\* loginUser, of the connect test, of saveMT5Account or of a configuration
\* write ends the action with the stage it started in; a failure of a read of
\* the refresh that save configuration runs after it has moved to home ends
\* it with the stage at home; in both cases the failing step leaves the stage
\* as it was and the displayed error is the message of that failure.
C5_FailureKeepsStage ==
    FailedEnd(StageAdvancing) /\ ev.alone
    => (/\ error = ev.msg
        /\ step = ev.from
        /\ IF ev.op \in HomeReads
           THEN ev.kind = "save" /\ ev.start = "configure" /\ step = "home"
           ELSE step = ev.start)

C5_Witness ==
    /\ FailedEnd({"save"})
    /\ ev.alone
    /\ ev.op = "saveRiskConfig"
    /\ step = "configure"
    /\ error = "Saving risk settings failed with status 500"

\* the order of the stages
StageOrder == <<"login", "onboarding", "connect", "configure", "home">>

\* C6: in every execution, overlapping actions included, the stage only ever
\* changes from a stage to its immediate successor in the order login,
\* onboarding, connect, configure, home: never backward, never past a stage.
C6_StageOnlyAdvances ==
    [][step' # step =>
          \E i \in 1..(Len(StageOrder) - 1) :
              step = StageOrder[i] /\ step' = StageOrder[i + 1]]_vars

\* the order of the writes of save configuration
WriteOrder == <<"saveTradingConfig", "saveRiskConfig", "saveSessionConfig",
                "activateLicense">>

\* the writes issued so far are the first ones of the order, once each
InWriteOrder(issued) ==
    /\ Len(issued) \in 1..Len(WriteOrder)
    /\ \A i \in 1..Len(issued) : issued[i] = WriteOrder[i]

\* C7: within one save-configuration action the writes are issued one after
\* another in the order saveTradingConfig, saveRiskConfig, saveSessionConfig,
\* activateLicense (the last only for a key that is not blank): each only after
\* the one before it completed successfully, never two pending at once, and
\* none after the first failure.
C7_WritesInSequence ==
    /\ \A a \in Handlers :
          a.kind = "save" /\ a.pc # "batch" =>
             /\ InWriteOrder(a.issued)
             /\ a.pc = a.issued[Len(a.issued)]
             /\ a.settled = Len(a.issued) - 1
             /\ a.okCount = a.settled
             /\ a.pc = "activateLicense" => ~Blank(a.key)
    /\ FailedEnd({"save"}) /\ ev.op \in ConfigWrites =>
          /\ InWriteOrder(ev.issued)
          /\ ev.issued[Len(ev.issued)] = ev.op

C7_Witness ==
    \E a \in Handlers :
        /\ a.kind = "save"
        /\ a.pc = "activateLicense"
        /\ a.issued = WriteOrder
        /\ a.okCount = 3

\* the step takes a read of the batch a off the reads in flight
ReadOfBatchSettles(a) ==
    /\ a.pc = "batch"
    /\ CopiesIn(a, acts') < CopiesIn(a, acts)

\* the step settles a batch with none of its reads left in flight
BatchSettlesWhole ==
    /\ ev'.type = "settled"
    /\ ev'.op \in ReadOps
    /\ ev'.left = 0

\* C8: for a refresh batch (the six reads of refreshHome, the three of
\* onLoadUserData) nothing displayed is updated on behalf of the batch while
\* a read of the batch is still pending, whether the reads succeed or one fails.
C8_NoUpdateWhilePending ==
    [][\A a \in Handlers :
          ReadOfBatchSettles(a) /\ ~BatchSettlesWhole => display' = display]_vars

\* the step ends a refresh batch on a read that failed
BatchFails ==
    /\ ev'.type = "settled"
    /\ ev'.op \in ReadOps
    /\ ev'.out = "raise"
    /\ \E a \in Handlers : ReadOfBatchSettles(a)

\* the step fulfils a refresh batch
BatchFulfilled ==
    /\ ev'.type = "settled"
    /\ ev'.op \in ReadOps
    /\ ev'.out = "return"

\* C9: when a read of a refresh batch fails, the stage is unchanged, the
\* displayed license, summary, bot status, closed trades and notifications
\* keep their values, and the displayed error is the message of the failure;
\* a batch that runs on its own changes none of these slices from the press
\* on unless it is fulfilled, so the values kept are those from before it.
C9_FailedRefreshKeepsData ==
    [][/\ BatchFails =>
             /\ step' = step
             /\ Snapshot' = Snapshot
             /\ error' = ev'.msg
       /\ (solo /\ (\E a \in Handlers : a.pc = "batch") /\ ~BatchFulfilled)
             => Snapshot' = Snapshot]_vars

C9_Witness ==
    /\ FailedEnd({"refresh"})
    /\ ev.op = "getNotifications"
    /\ ev.alone
    /\ step = "home"
    /\ license = 1 /\ summary = 1 /\ closedTrades = 1 /\ notifications = 1
    /\ botStatus.tag = 1
    /\ error = "Notifications request failed with status 500"

\* no call occurs twice
NoRepeat(issued) ==
    \A i \in 1..Len(issued) : \A j \in 1..Len(issued) : issued[i] = issued[j] => i = j

\* a handler in progress outside a batch awaits the one call it issued last,
\* every call before it succeeded, and no call was issued twice
OneCallOutstanding(a) ==
    /\ NoRepeat(a.issued)
    /\ a.pc = a.issued[Len(a.issued)]
    /\ a.settled = Len(a.issued) - 1
    /\ a.okCount = a.settled

\* the step ends a handler on a call that failed
CallFails ==
    /\ ev'.type = "settled"
    /\ ev'.out = "raise"

\* C13: nothing is retried: one invocation of an operation issues at most one
\* HTTP request; one user action issues each of its calls at most once; and the
\* step in which a call fails issues no request and ends the action, so no
\* further request is issued for it until the user starts a new action.
C13_NothingRetried ==
    [][/\ ev'.type = "settled" =>
             \A op \in {ev'.op} \cup {ev'.issued[i] : i \in 1..Len(ev'.issued)} :
                \A arg \in Strs : RequestsIssued(op, arg) <= 1
       /\ \A a \in Handlers' :
             IF a.pc = "batch"
             THEN a.pending # {} /\ a.pending \subseteq HomeReads /\ a.issued = <<>>
             ELSE OneCallOutstanding(a)
       /\ ev'.type = "settled" => NoRepeat(ev'.issued)
       /\ CallFails =>
             /\ BagCardinality(acts') = BagCardinality(acts) - (IF ev'.kind = "login" THEN 0 ELSE 1)
             /\ \A a \in Handlers' : a \in Handlers
             /\ InFlight' = InFlight - (IF ev'.kind = "login" THEN 0 ELSE ev'.left + 1)]_vars

C13_Witness ==
    /\ FailedEnd({"connect"})
    /\ ev.op = "saveMT5Account"
    /\ ev.issued = <<"connectMT5", "saveMT5Account">>
    /\ acts = EmptyBag
    /\ loading = FALSE

\* the slices a refresh sets from the reads of its batch
Slices ==
    IF variant = "journey" THEN <<license, summary, closedTrades, notifications>>
    ELSE <<license, summary, notifications>>

\* C15: after any sequence of refreshes, overlapping ones included, the
\* displayed license, summary, closed trades and notifications are either all
\* initial or all the values one and the same fulfilled batch returned: only
\* the step that fulfils a batch changes them, and it sets every one of them to
\* what that batch was handed.
C15_SlicesFromOneBatch ==
    [][/\ \A i \in 1..Len(Slices') : Slices'[i] = Slices'[1]
       /\ variant = "starter" => closedTrades' = 0
       /\ IF BatchFulfilled /\ \E a \in Handlers : ReadOfBatchSettles(a)
          THEN \E a \in Handlers :
                  /\ ReadOfBatchSettles(a)
                  /\ a.id # 0
                  /\ \A i \in 1..Len(Slices') : Slices'[i] = a.id
          ELSE Slices' = Slices]_vars

C15_Witness ==
    /\ ev.type = "settled"
    /\ ev.kind = "refresh"
    /\ ev.op = "getNotifications"
    /\ ev.out = "return"
    /\ ~ev.alone
    /\ acts # EmptyBag
    /\ license = 2 /\ summary = 2 /\ closedTrades = 2 /\ notifications = 2

\* C16: in the connect action saveMT5Account is issued only when the connect
\* test returned the status "validated"; a result of any other status ("failed"
\* or "provider_unavailable") never leads to saveMT5Account being awaited, and
\* so never to the account being persisted or the stage moving to configure.
C16_OnlyValidatedIsSaved ==
    \A a \in Handlers :
        a.kind = "connect" /\ a.pc = "saveMT5Account" => a.validation = "validated"

\* C17: in every reachable state, overlapping actions included: when the stage
\* is configure or home, some saveMT5Account call has completed successfully;
\* when the stage is home, a saveTradingConfig, a saveRiskConfig and a
\* saveSessionConfig call have each completed successfully.
C17_StageImpliesWrites ==
    /\ step \in {"configure", "home"} => "saveMT5Account" \in completed
    /\ step = "home" =>
          {"saveTradingConfig", "saveRiskConfig", "saveSessionConfig"} \subseteq completed

C17_Witness ==
    /\ step = "home"
    /\ ~solo
    /\ completed = {"saveMT5Account", "saveTradingConfig", "saveRiskConfig",
                    "saveSessionConfig"}
    /\ \E a \in Handlers : a.kind = "connect" /\ a.pc = "saveMT5Account"

\* C18: in every reachable state the displayed error and the displayed success
\* message are not both set.
C18_ErrorOrSuccessNotBoth ==
    ~(error # Null /\ successMessage # Null)

\* reads that a rejected Promise.all left in flight in the last step
AbandonedReads == IF ev.out = "raise" THEN ev.left ELSE 0

\* C19: in every reachable state in which at least one API call issued by a
\* view-controller action is pending, the loading flag is true; also when two
\* actions overlap, and when one read of a batch has failed before the others
\* resolved.
C19_LoadingWhilePending ==
    InFlight + AbandonedReads > 0 => loading

\* the last step completed a refresh batch of the journey
HomeBatchCompleted ==
    /\ variant = "journey"
    /\ ev.type = "settled"
    /\ ev.kind \in {"refresh", "save", "bot"}
    /\ ev.op \in {"getHealth", "getLicenseStatus", "getDashboardSummary", "getBotStatus",
                  "getClosedTrades", "getNotifications"}

\* C22: when a refresh batch has just completed, the health indicator is
\* "healthy" exactly when all six reads of the batch succeeded and the health
\* response had ok = true; when a read of the batch failed it is "unhealthy",
\* also when the health read itself had succeeded with ok = true.
C22_HealthIndicator ==
    HomeBatchCompleted =>
       /\ health \in {"healthy", "unhealthy"}
       /\ health = "healthy" <=> (ev.out = "return" /\ ev.left = 0 /\ ev.healthOk)
       /\ ev.out = "raise" => health = "unhealthy"

C22_Witness ==
    /\ HomeBatchCompleted
    /\ ev.out = "raise"
    /\ ev.op = "getNotifications"
    /\ ev.healthOk
    /\ health = "unhealthy"

\* C23: in every reachable state the onboarding page index is between 0 and 2,
\* so it names one of the three slides; the index changes only by a press of
\* Next on a page below 2, which adds one and leaves the stage at onboarding;
\* on page 2 a press leaves the index alone and moves the stage to connect.
C23_OnboardingPageInRange ==
    [][/\ onboardingPage' \in 0..2
       /\ onboardingPage' # onboardingPage =>
             /\ step = "onboarding" /\ step' = "onboarding"
             /\ onboardingPage < 2
             /\ onboardingPage' = onboardingPage + 1
       /\ step = "onboarding" /\ step' = "onboarding" /\ onboardingPage = 2 =>
             UNCHANGED display
       /\ step = "onboarding" /\ step' # "onboarding" => step' = "connect"]_vars

\* the stage is connect after Next was pressed on the last slide (Skip would
\* have cleared the message of the login)
C23_Witness ==
    /\ step = "connect"
    /\ onboardingPage = 2
    /\ successMessage = "Logged in successfully"

----------------------------------------------------------------------------
(* Termination, checked under LiveSpec *)

Watching == \E a \in Handlers : a.watched

\* C21: if every call an action issues eventually resolves or rejects, the
\* action eventually completes, whichever started action is followed and
\* whatever the other actions do; in every state in which no action is
\* pending the loading flag is false, so a rejected call never leaves it stuck
\* at true.
C21_ActionsComplete ==
    /\ [](acts = EmptyBag => loading = FALSE)
    /\ Watching ~> ~Watching

\* an action has just ended on a rejected call, none is pending, and loading
\* is false
C21_Witness ==
    /\ ev.type = "settled"
    /\ ev.out = "raise"
    /\ ev.op = "getBotStatus"
    /\ ~ev.alone
    /\ acts = EmptyBag
    /\ loading = FALSE

----------------------------------------------------------------------------
(* Properties of the bot handlers, checked under OkSpec *)

\* C20: when every call succeeds and the backend's run state changes only
\* through this client's start and stop calls: whenever no action is pending
\* and at least one refresh, start or stop has completed (a bot status is
\* displayed), the displayed botStatus.running is the backend's current run
\* state, for every interleaving of overlapping actions.
C20_BotStatusIsCurrent ==
    acts = EmptyBag /\ botStatus.tag # 0 => botStatus.running = serverRunning

====
